---- MODULE Spec2Model ----
(***************************************************************************)
(* koalatype (src/main.py): the typing-test engine.                        *)
(*                                                                         *)
(* A string is a sequence of one-character strings, so "ab cd" is          *)
(* <<"a","b"," ","c","d">>.  Indices kept by the program (word_index,      *)
(* rows, columns, prompt_starts, offsets into positions) are 0-based as in *)
(* the source; TLA+ sequences are 1-based, so element k of a Python list   *)
(* xs is xs[k + 1] here.                                                   *)
(***************************************************************************)
EXTENDS Integers, Sequences, FiniteSets, TLC

VARIABLES
    pc,               \* where the program is: see the specifications below
    prompt,           \* the prompt string handed to _run_curses_test / _score
    duration_seconds, \* the session's time budget
    clock,            \* time.perf_counter(), in whole seconds
    term,             \* the terminal: [mode, height, width]
    prompt_words,     \* prompt.split(" ")                         (line 219)
    typed_words,      \* the per-word buffers                      (line 230)
    word_index,       \* the current word, 0-based                 (line 231)
    start_time,       \*                                           (line 232)
    frame,            \* the locals of the last loop iteration painted
    key,              \* the last value get_wch() returned, or "none"
    result,           \* result["typed"], result["elapsed"]        (line 217)
    results           \* what _score returned to main              (line 350)

vars == <<pc, prompt, duration_seconds, clock, term, prompt_words, typed_words,
          word_index, start_time, frame, key, result, results>>

(***************************************************************************)
(* Bounds of the model.                                                    *)
(***************************************************************************)
\* The most prompt words, and typed buffers, handed to the render builder
\* on its own, and the longest such buffer.
MaxBuildWords == 2
MaxBufLen == 3
\* Characters a session may hold in all its buffers together.
MaxTyped == 2
\* The longest session, in seconds, and so the last clock value modelled.
MaxDuration == 2
\* The longest text handed to the layout on its own.
MaxTextLen == 6
\* The widest layout width tried on its own.
MaxWidth == 4
\* The longest prompt and transcript handed to the scorer on their own.
MaxScoreLen == 3
\* The longest elapsed time handed to the scorer on its own.
MaxElapsed == 1

(***************************************************************************)
(* Program constants.                                                      *)
(***************************************************************************)
\* usable_width = max(20, width - 2)
MinUsableWidth == 20
\* base_row = 3
BaseRow == 3
\* minutes = max(elapsed_seconds / 60.0, 1e-9): 1e-9 is 1 / EpsilonDen
EpsilonDen == 1000000000
SecondsPerMinute == 60
\* curses.color_pair(1) green, (2) red; 0 is the window's default attribute
ColorMatch == 1
ColorMismatch == 2
ColorDefault == 0

Max(a, b) == IF a >= b THEN a ELSE b
Min(a, b) == IF a <= b THEN a ELSE b

\* Characters the user can type into a buffer, and the space character.
Letters == {"a", "b"}
Space == " "

(***************************************************************************)
(* str.split(" "), str.split() and " ".join                                *)
(***************************************************************************)
RECURSIVE SplitOn(_, _, _)
\* s.split(" "): every single space separates, empty tokens are kept.
\* cur is the token being read.
SplitOn(s, sep, cur) ==
    IF s = <<>> THEN <<cur>>
    ELSE IF Head(s) = sep THEN <<cur>> \o SplitOn(Tail(s), sep, <<>>)
    ELSE SplitOn(Tail(s), sep, Append(cur, Head(s)))

SplitSpace(s) == SplitOn(s, Space, <<>>)

NonEmpty(w) == w # <<>>

\* s.split(): runs of whitespace separate, no empty token is produced.
SplitWhitespace(s) == SelectSeq(SplitOn(s, Space, <<>>), NonEmpty)

RECURSIVE Join(_, _)
\* sep.join(ws)
Join(sep, ws) ==
    IF ws = <<>> THEN <<>>
    ELSE IF Len(ws) = 1 THEN ws[1]
    ELSE ws[1] \o sep \o Join(sep, Tail(ws))

RECURSIVE JoinChars(_)
\* "".join(buffer): the buffer's keys one after another
JoinChars(buf) ==
    IF buf = <<>> THEN <<>> ELSE <<Head(buf)>> \o JoinChars(Tail(buf))

RECURSIVE Spaces(_)
\* " " * n
Spaces(n) == IF n <= 0 THEN <<>> ELSE <<Space>> \o Spaces(n - 1)

(***************************************************************************)
(* _score                                                                  *)
(***************************************************************************)
RECURSIVE ZipCorrect(_, _)
\* sum(1 for expected, actual in zip(pw, tw) if expected == actual)
ZipCorrect(pw, tw) ==
    IF pw = <<>> \/ tw = <<>> THEN 0
    ELSE (IF Head(pw) = Head(tw) THEN 1 ELSE 0) + ZipCorrect(Tail(pw), Tail(tw))

\* max(elapsed_seconds / 60.0, 1e-9) as a fraction num/den of a minute.
\* elapsed / 60 >= 1 / EpsilonDen  iff  elapsed >= 60 / EpsilonDen, and for a
\* whole number of seconds that is elapsed >= 1.
Minutes(elapsed_seconds) ==
    IF elapsed_seconds >= (SecondsPerMinute + EpsilonDen - 1) \div EpsilonDen
    THEN [num |-> elapsed_seconds, den |-> SecondsPerMinute]
    ELSE [num |-> 1, den |-> EpsilonDen]

\* Score with the words-per-minute counting only the correct words.
ScoreCorrectWordsOnly(p, typed, elapsed_seconds) ==
    LET pw == SplitWhitespace(p)
        tw == SplitWhitespace(typed)
        correct == ZipCorrect(pw, tw)
        total == Max(Len(pw), 1)
        minutes == Minutes(elapsed_seconds)
    IN  [correct |-> correct,
         total |-> total,
         wpm_words |-> correct,
         minutes |-> minutes,
         raised |-> (total = 0 \/ minutes.num = 0)]

\* _score(prompt, typed, elapsed_seconds).  wpm is the quotient
\* wpm_words / minutes and accuracy is 100 * correct / total; both are kept
\* as their operands, "raised" is whether a division by zero was raised.
Score(p, typed, elapsed_seconds) ==
    LET pw == SplitWhitespace(p)
        tw == SplitWhitespace(typed)
        correct == ZipCorrect(pw, tw)
        total == Max(Len(pw), 1)
        minutes == Minutes(elapsed_seconds)
    IN  [correct |-> correct,
         total |-> total,
         wpm_words |-> Len(tw),
         minutes |-> minutes,
         raised |-> (total = 0 \/ minutes.num = 0)]

(***************************************************************************)
(* _layout_prompt                                                          *)
(***************************************************************************)
RECURSIVE PlaceChars(_, _)
\* for ch in word: current_line.append(ch); positions.append((row, col));
\* col += 1
PlaceChars(st, word) ==
    IF word = <<>> THEN st
    ELSE PlaceChars([st EXCEPT !.current_line = Append(@, Head(word)),
                               !.positions = Append(@, <<st.row, st.col>>),
                               !.col = @ + 1],
                    Tail(word))

\* LayoutWord with the fit test forgetting the separating space.
LayoutWordNoSpaceLen(st, word, width) ==
    LET word_len == Len(word)
        wrapped ==
            IF st.col > 0 /\ st.col + word_len > width
            THEN [st EXCEPT !.lines = Append(@, st.current_line),
                            !.current_line = <<>>,
                            !.row = @ + 1,
                            !.col = 0]
            ELSE st
        spaced ==
            IF wrapped.col > 0
            THEN [wrapped EXCEPT !.current_line = Append(@, Space),
                                 !.positions = Append(@, <<wrapped.row, wrapped.col>>),
                                 !.col = @ + 1]
            ELSE wrapped
    IN  PlaceChars(spaced, word)

\* One iteration of "for word_idx, word in enumerate(words)".
LayoutWord(st, word, width) ==
    LET word_len == Len(word)
        space_len == IF st.col > 0 THEN 1 ELSE 0
        wrapped ==
            IF st.col > 0 /\ st.col + space_len + word_len > width
            THEN [st EXCEPT !.lines = Append(@, st.current_line),
                            !.current_line = <<>>,
                            !.row = @ + 1,
                            !.col = 0]
            ELSE st
        spaced ==
            IF wrapped.col > 0
            THEN [wrapped EXCEPT !.current_line = Append(@, Space),
                                 !.positions = Append(@, <<wrapped.row, wrapped.col>>),
                                 !.col = @ + 1]
            ELSE wrapped
    IN  PlaceChars(spaced, word)

RECURSIVE LayoutWords(_, _, _)
LayoutWords(st, words, width) ==
    IF words = <<>> THEN st
    ELSE LayoutWords(LayoutWord(st, Head(words), width), Tail(words), width)

\* _layout_prompt(prompt, width) -> (lines, positions)
LayoutPrompt(text, width) ==
    LET st0 == [lines |-> <<>>, positions |-> <<>>, row |-> 0, col |-> 0,
                current_line |-> <<>>]
        st == LayoutWords(st0, SplitSpace(text), width)
        lines == IF st.current_line # <<>> \/ st.lines = <<>>
                 THEN Append(st.lines, st.current_line)
                 ELSE st.lines
    IN  [lines |-> lines, positions |-> st.positions]

(***************************************************************************)
(* _build_rendered_text                                                    *)
(***************************************************************************)
RECURSIVE BuildWordsIgnoresPadding(_, _, _, _)
\* BuildWords with the running index advanced by the expected word only.
BuildWordsIgnoresPadding(pwords, twords, w_idx, acc) ==
    IF w_idx >= Len(pwords) THEN acc
    ELSE LET word == pwords[w_idx + 1]
             typed_word == IF w_idx < Len(twords) THEN twords[w_idx + 1] ELSE <<>>
             extra_len == Max(Len(typed_word) - Len(word), 0)
             rendered_word == word \o Spaces(extra_len)
         IN  BuildWordsIgnoresPadding(pwords, twords, w_idx + 1,
                 [rendered_words |-> Append(acc.rendered_words, rendered_word),
                  starts |-> Append(acc.starts, acc.index),
                  index |-> acc.index + Len(word) + 1])

RECURSIVE BuildWords(_, _, _, _)
\* The loop of _build_rendered_text from word w_idx on; acc holds
\* rendered_words, starts and index.
BuildWords(pwords, twords, w_idx, acc) ==
    IF w_idx >= Len(pwords) THEN acc
    ELSE LET word == pwords[w_idx + 1]
             typed_word == IF w_idx < Len(twords) THEN twords[w_idx + 1] ELSE <<>>
             extra_len == Max(Len(typed_word) - Len(word), 0)
             rendered_word == word \o Spaces(extra_len)
         IN  BuildWords(pwords, twords, w_idx + 1,
                 [rendered_words |-> Append(acc.rendered_words, rendered_word),
                  starts |-> Append(acc.starts, acc.index),
                  index |-> acc.index + Len(rendered_word) + 1])

\* _build_rendered_text(prompt_words, typed_words) -> (text, starts)
BuildRenderedText(pwords, twords) ==
    LET acc == BuildWords(pwords, twords, 0,
                   [rendered_words |-> <<>>, starts |-> <<>>, index |-> 0])
    IN  [text |-> Join(<<Space>>, acc.rendered_words), starts |-> acc.starts]

(***************************************************************************)
(* One iteration of the loop of _curses_main up to stdscr.refresh()        *)
(***************************************************************************)
\* for idx, line in enumerate(prompt_lines[:max_lines]):
\*     stdscr.addstr(base_row + idx, 0, line)
\* as the cells written: <<y, x>> |-> [ch, color]
PaintLines(prompt_lines, max_lines) ==
    LET shown == Min(Len(prompt_lines), max_lines)
        cells == UNION {{<<idx, x>> : x \in 0 .. Len(prompt_lines[idx + 1]) - 1} :
                            idx \in 0 .. shown - 1}
    IN  [c \in {<<BaseRow + q[1], q[2]>> : q \in cells} |->
            [ch |-> prompt_lines[c[1] - BaseRow + 1][c[2] + 1], color |-> ColorDefault]]

\* CharColor comparing a character past the word's end with the word's last
\* character instead of with None.
CharColorClampedIndex(expected_word, i, ch) ==
    IF ch = expected_word[Min(i, Len(expected_word) - 1) + 1]
    THEN ColorMatch
    ELSE ColorMismatch

\* The color of typed character ch at index i of a word (lines 271-278).
CharColor(expected_word, i, ch) ==
    IF i < Len(expected_word) /\ ch = expected_word[i + 1]
    THEN ColorMatch
    ELSE ColorMismatch

RECURSIVE PaintChars(_, _, _, _, _, _, _)
\* for i, ch in enumerate(typed_word): ... stdscr.addstr(base_row + row, col, ch, color)
PaintChars(scr, typed_word, expected_word, word_start, i, positions, max_lines) ==
    IF i >= Len(typed_word) THEN scr
    ELSE LET ch == typed_word[i + 1]
             char_index == word_start + i
         IN  IF char_index >= Len(positions) THEN scr
             ELSE LET row == positions[char_index + 1][1]
                      col == positions[char_index + 1][2]
                      next == IF row >= max_lines THEN scr
                              ELSE (<<BaseRow + row, col>> :>
                                      [ch |-> ch,
                                       color |-> CharColor(expected_word, i, ch)])
                                   @@ scr
                  IN  PaintChars(next, typed_word, expected_word, word_start,
                                 i + 1, positions, max_lines)

RECURSIVE PaintTyped(_, _, _, _, _, _, _)
\* for w_idx, typed_word in enumerate(typed_words): ...
PaintTyped(scr, pwords, twords, w_idx, starts, positions, max_lines) ==
    IF w_idx >= Len(twords) \/ w_idx >= Len(pwords) THEN scr
    ELSE PaintTyped(PaintChars(scr, twords[w_idx + 1], pwords[w_idx + 1],
                               starts[w_idx + 1], 0, positions, max_lines),
                    pwords, twords, w_idx + 1, starts, positions, max_lines)

\* Where stdscr.move put the cursor (lines 281-289), or <<>> when it did
\* not move it.
Cursor(pwords, twords, w_index, starts, positions, max_lines) ==
    IF w_index < Len(pwords) /\ positions # <<>>
    THEN LET cursor_base == starts[w_index + 1]
             cursor_offset == Len(twords[w_index + 1])
             cursor_index == Min(cursor_base + cursor_offset, Len(positions) - 1)
             cursor_row == positions[cursor_index + 1][1]
             cursor_col == positions[cursor_index + 1][2]
         IN  IF cursor_row < max_lines
             THEN <<BaseRow + cursor_row, cursor_col>>
             ELSE <<>>
    ELSE <<>>

\* The locals of one loop iteration, from stdscr.erase() to stdscr.refresh().
PaintFrame(pwords, twords, w_index, height, width, elapsed, duration) ==
    LET usable_width == Max(MinUsableWidth, width - 2)
        built == BuildRenderedText(pwords, twords)
        laid == LayoutPrompt(built.text, usable_width)
        max_lines == Max(0, height - BaseRow - 2)
    IN  [usable_width |-> usable_width,
         rendered_text |-> built.text,
         prompt_starts |-> built.starts,
         prompt_lines |-> laid.lines,
         positions |-> laid.positions,
         remaining |-> Max(duration - elapsed, 0),
         max_lines |-> max_lines,
         screen |-> PaintTyped(PaintLines(laid.lines, max_lines), pwords, twords,
                               0, built.starts, laid.positions, max_lines),
         cursor |-> Cursor(pwords, twords, w_index, built.starts,
                           laid.positions, max_lines)]

\* Before the first iteration nothing is laid out or painted.
NoFrame ==
    [usable_width |-> 0, rendered_text |-> <<>>, prompt_starts |-> <<>>,
     prompt_lines |-> <<>>, positions |-> <<>>, remaining |-> 0,
     max_lines |-> 0, screen |-> <<>>, cursor |-> <<>>]

(***************************************************************************)
(* The session: main's call of _run_curses_test, then of _score            *)
(***************************************************************************)
\* Prompts of the sessions modelled, as _generate_prompt joins them: one
\* word, two words, and two words that do not fit one line of
\* MinUsableWidth columns.
LongWordA == <<"a", "a", "a", "a", "a", "a", "a", "a", "a", "a">>
LongWordB == <<"b", "a", "a", "a", "a", "a", "a", "a", "a", "a">>
PromptWordLists ==
    {<< <<"a", "b">> >>,
     << <<"a">>, <<"b">> >>,
     << LongWordA, LongWordB >>}

\* " ".join(rng.choices(pack.words, k=count))
GeneratePrompt(words) == Join(<<Space>>, words)

\* The terminal sizes modelled: wide, narrow (the long prompt wraps), and
\* narrow with room for a single prompt line.
TermSizes ==
    {[height |-> 24, width |-> 80],
     [height |-> 24, width |-> 22],
     [height |-> 6, width |-> 22]}

\* What stdscr.get_wch() can hand back.  "timeout" is curses.error (no key
\* within the poll), "KEY_UP" a key code that is no string, "TAB" a string
\* that is not printable.
BackspaceKeys == {"KEY_BACKSPACE", "DEL"}
OtherKeys == {"KEY_UP", "TAB"}

RECURSIVE TypedCount(_)
TypedCount(twords) ==
    IF twords = <<>> THEN 0 ELSE Len(Head(twords)) + TypedCount(Tail(twords))

\* " ".join("".join(word) for word in typed_words)
Transcript(twords) ==
    Join(<<Space>>, [w \in 1 .. Len(twords) |-> JoinChars(twords[w])])

NoResult == [typed |-> <<>>, elapsed |-> 0]
NoResults == [correct |-> 0, total |-> 0, wpm_words |-> 0,
              minutes |-> [num |-> 0, den |-> 0], raised |-> FALSE]

Init ==
    /\ pc = "start"
    /\ \E words \in PromptWordLists : prompt = GeneratePrompt(words)
    /\ duration_seconds \in 1 .. MaxDuration
    /\ clock \in 0 .. 1
    /\ \E size \in TermSizes :
           term = [mode |-> "normal", height |-> size.height, width |-> size.width]
    /\ prompt_words = <<>>
    /\ typed_words = <<>>
    /\ word_index = 0
    /\ start_time = 0
    /\ frame = NoFrame
    /\ key = "none"
    /\ result = NoResult
    /\ results = NoResults

\* _run_curses_test up to the loop: curses.wrapper takes the terminal and
\* calls _curses_main, which sets up the session state.
Start ==
    /\ pc = "start"
    /\ pc' = "frame"
    /\ term' = [term EXCEPT !.mode = "curses"]
    /\ prompt_words' = SplitSpace(prompt)
    /\ typed_words' = << <<>> >>
    /\ word_index' = 0
    /\ start_time' = clock
    /\ result' = NoResult
    /\ UNCHANGED <<prompt, duration_seconds, clock, frame, key, results>>

\* The loop is left by break: lines 327-328, then curses.wrapper restores
\* the terminal and _run_curses_test returns.
LoopExit ==
    /\ pc' = "done"
    /\ result' = [typed |-> Transcript(typed_words),
                  elapsed |-> Min(clock - start_time, duration_seconds)]
    /\ term' = [term EXCEPT !.mode = "normal"]

\* Frame with the time test written "remaining < 0", which max(..., 0.0)
\* never satisfies.
FrameNeverTimesOut ==
    /\ pc = "frame"
    /\ frame' = PaintFrame(prompt_words, typed_words, word_index, term.height,
                           term.width, clock - start_time, duration_seconds)
    /\ IF frame'.remaining < 0
       THEN LoopExit
       ELSE pc' = "poll" /\ UNCHANGED <<result, term>>
    /\ UNCHANGED <<prompt, duration_seconds, clock, prompt_words, typed_words,
                   word_index, start_time, key, results>>

\* Frame breaking only once the clock has passed the budget, so that the
\* frame painted with remaining = 0 still polls.
FrameBreaksPastBudget ==
    /\ pc = "frame"
    /\ frame' = PaintFrame(prompt_words, typed_words, word_index, term.height,
                           term.width, clock - start_time, duration_seconds)
    /\ IF clock - start_time > duration_seconds
       THEN LoopExit
       ELSE pc' = "poll" /\ UNCHANGED <<result, term>>
    /\ UNCHANGED <<prompt, duration_seconds, clock, prompt_words, typed_words,
                   word_index, start_time, key, results>>

\* Lines 236-294: build, lay out, paint, refresh, and break when no time
\* remains.
Frame ==
    /\ pc = "frame"
    /\ frame' = PaintFrame(prompt_words, typed_words, word_index, term.height,
                           term.width, clock - start_time, duration_seconds)
    /\ IF frame'.remaining <= 0
       THEN LoopExit
       ELSE pc' = "poll" /\ UNCHANGED <<result, term>>
    /\ UNCHANGED <<prompt, duration_seconds, clock, prompt_words, typed_words,
                   word_index, start_time, key, results>>

\* Timeout leaving the loop instead of continuing it.
TimeoutBreaks ==
    /\ pc = "poll"
    /\ key' = "timeout"
    /\ LoopExit
    /\ UNCHANGED <<prompt, duration_seconds, clock, prompt_words, typed_words,
                   word_index, start_time, frame, results>>

\* get_wch raised curses.error: sleep and continue (lines 298-300).
Timeout ==
    /\ pc = "poll"
    /\ key' = "timeout"
    /\ pc' = "frame"
    /\ UNCHANGED <<prompt, duration_seconds, clock, term, prompt_words,
                   typed_words, word_index, start_time, frame, result, results>>

\* Backspace stepping back a word without dropping the buffer it leaves.
BackspaceKeepsBuffer(k) ==
    /\ pc = "poll"
    /\ k \in BackspaceKeys
    /\ key' = k
    /\ pc' = "frame"
    /\ IF typed_words[word_index + 1] # <<>>
       THEN /\ typed_words' = [typed_words EXCEPT ![word_index + 1] =
                                   SubSeq(@, 1, Len(@) - 1)]
            /\ UNCHANGED word_index
       ELSE IF word_index > 0
       THEN /\ word_index' = word_index - 1
            /\ UNCHANGED typed_words
       ELSE UNCHANGED <<typed_words, word_index>>
    /\ UNCHANGED <<prompt, duration_seconds, clock, term, prompt_words,
                   start_time, frame, result, results>>

\* Backspace dropping the empty buffer of the first word as well.
BackspaceDropsFirstBuffer(k) ==
    /\ pc = "poll"
    /\ k \in BackspaceKeys
    /\ key' = k
    /\ pc' = "frame"
    /\ IF typed_words[word_index + 1] # <<>>
       THEN /\ typed_words' = [typed_words EXCEPT ![word_index + 1] =
                                   SubSeq(@, 1, Len(@) - 1)]
            /\ UNCHANGED word_index
       ELSE /\ word_index' = Max(word_index - 1, 0)
            /\ typed_words' = SubSeq(typed_words, 1, Len(typed_words) - 1)
    /\ UNCHANGED <<prompt, duration_seconds, clock, term, prompt_words,
                   start_time, frame, result, results>>

\* Backspace emptying the buffer of the word it steps back into.
BackspaceClearsPreviousWord(k) ==
    /\ pc = "poll"
    /\ k \in BackspaceKeys
    /\ key' = k
    /\ pc' = "frame"
    /\ IF typed_words[word_index + 1] # <<>>
       THEN /\ typed_words' = [typed_words EXCEPT ![word_index + 1] =
                                   SubSeq(@, 1, Len(@) - 1)]
            /\ UNCHANGED word_index
       ELSE IF word_index > 0
       THEN /\ word_index' = word_index - 1
            /\ typed_words' = [SubSeq(typed_words, 1, Len(typed_words) - 1)
                                   EXCEPT ![word_index] = <<>>]
       ELSE UNCHANGED <<typed_words, word_index>>
    /\ UNCHANGED <<prompt, duration_seconds, clock, term, prompt_words,
                   start_time, frame, result, results>>

\* BackspaceEffect stepping back to the previous word without popping the
\* buffer it leaves.
BackspaceEffectKeepsBuffer(twords, w_index) ==
    IF twords[w_index + 1] # <<>>
    THEN [typed_words |-> [twords EXCEPT ![w_index + 1] =
                               SubSeq(@, 1, Len(@) - 1)],
          word_index |-> w_index]
    ELSE [typed_words |-> twords, word_index |-> Max(w_index - 1, 0)]

\* What lines 302-306 make of typed_words and word_index: pop the last
\* character of the current buffer; with that buffer empty past the first
\* word, step back a word and pop the buffer left; otherwise nothing.
BackspaceEffect(twords, w_index) ==
    IF twords[w_index + 1] # <<>>
    THEN [typed_words |-> [twords EXCEPT ![w_index + 1] =
                               SubSeq(@, 1, Len(@) - 1)],
          word_index |-> w_index]
    ELSE IF w_index > 0
    THEN [typed_words |-> SubSeq(twords, 1, Len(twords) - 1),
          word_index |-> w_index - 1]
    ELSE [typed_words |-> twords, word_index |-> w_index]

\* Lines 301-307.
Backspace(k) ==
    /\ pc = "poll"
    /\ k \in BackspaceKeys
    /\ key' = k
    /\ pc' = "frame"
    /\ typed_words' = BackspaceEffect(typed_words, word_index).typed_words
    /\ word_index' = BackspaceEffect(typed_words, word_index).word_index
    /\ UNCHANGED <<prompt, duration_seconds, clock, term, prompt_words,
                   start_time, frame, result, results>>

\* Lines 308-309: the terminal has a new size, read by the next frame.
Resize(size) ==
    /\ pc = "poll"
    /\ key' = "KEY_RESIZE"
    /\ pc' = "frame"
    /\ term' = [term EXCEPT !.height = size.height, !.width = size.width]
    /\ UNCHANGED <<prompt, duration_seconds, clock, prompt_words, typed_words,
                   word_index, start_time, frame, result, results>>

\* LastWordDone with the last index taken one too far.
LastWordDoneOffByOne(pwords, twords, w_index) ==
    /\ w_index = Len(pwords)
    /\ JoinChars(twords[w_index + 1]) = pwords[w_index + 1]

\* LastWordDone without the comparison of the buffer.
LastWordDoneAnyText(pwords, twords, w_index) ==
    w_index = Len(pwords) - 1

\* if typed_word == expected_word (lines 312-315)
LastWordDone(pwords, twords, w_index) ==
    /\ w_index = Len(pwords) - 1
    /\ JoinChars(twords[w_index + 1]) = pwords[w_index + 1]

\* Advance with the index allowed one past the last word.
AdvancePastEnd ==
    /\ pc = "poll"
    /\ key' = Space
    /\ IF LastWordDone(prompt_words, typed_words, word_index)
       THEN /\ LoopExit
            /\ UNCHANGED <<typed_words, word_index>>
       ELSE /\ pc' = "frame"
            /\ IF word_index < Len(prompt_words)
               THEN /\ word_index' = word_index + 1
                    /\ typed_words' =
                           IF Len(typed_words) <= word_index'
                           THEN Append(typed_words, <<>>)
                           ELSE typed_words
               ELSE UNCHANGED <<typed_words, word_index>>
            /\ UNCHANGED <<result, term>>
    /\ UNCHANGED <<prompt, duration_seconds, clock, prompt_words, start_time,
                   frame, results>>

\* Lines 310-323.
Advance ==
    /\ pc = "poll"
    /\ key' = Space
    /\ IF LastWordDone(prompt_words, typed_words, word_index)
       THEN /\ LoopExit
            /\ UNCHANGED <<typed_words, word_index>>
       ELSE /\ pc' = "frame"
            /\ IF word_index < Len(prompt_words) - 1
               THEN /\ word_index' = word_index + 1
                    /\ typed_words' =
                           IF Len(typed_words) <= word_index'
                           THEN Append(typed_words, <<>>)
                           ELSE typed_words
               ELSE UNCHANGED <<typed_words, word_index>>
            /\ UNCHANGED <<result, term>>
    /\ UNCHANGED <<prompt, duration_seconds, clock, prompt_words, start_time,
                   frame, results>>

\* Char refusing a character once the buffer is as long as the expected word.
CharStopsAtWordLength(c) ==
    /\ pc = "poll"
    /\ c \in Letters
    /\ TypedCount(typed_words) < MaxTyped
    /\ key' = c
    /\ pc' = "frame"
    /\ typed_words' =
           IF Len(typed_words[word_index + 1]) < Len(prompt_words[word_index + 1])
           THEN [typed_words EXCEPT ![word_index + 1] = Append(@, c)]
           ELSE typed_words
    /\ UNCHANGED <<prompt, duration_seconds, clock, term, prompt_words,
                   word_index, start_time, frame, result, results>>

\* Lines 324-325: a printable string that is no space.
Char(c) ==
    /\ pc = "poll"
    /\ c \in Letters
    /\ TypedCount(typed_words) < MaxTyped
    /\ key' = c
    /\ pc' = "frame"
    /\ typed_words' = [typed_words EXCEPT ![word_index + 1] = Append(@, c)]
    /\ UNCHANGED <<prompt, duration_seconds, clock, term, prompt_words,
                   word_index, start_time, frame, result, results>>

\* OtherKey without the isinstance/isprintable test of line 324.
OtherKeyAppends(k) ==
    /\ pc = "poll"
    /\ k \in OtherKeys
    /\ key' = k
    /\ pc' = "frame"
    /\ typed_words' = [typed_words EXCEPT ![word_index + 1] = Append(@, k)]
    /\ UNCHANGED <<prompt, duration_seconds, clock, term, prompt_words,
                   word_index, start_time, frame, result, results>>

\* Any other key falls through every test of lines 301-324.
OtherKey(k) ==
    /\ pc = "poll"
    /\ k \in OtherKeys
    /\ key' = k
    /\ pc' = "frame"
    /\ UNCHANGED <<prompt, duration_seconds, clock, term, prompt_words,
                   typed_words, word_index, start_time, frame, result, results>>

\* Raise with _curses_main called outside curses.wrapper: nothing restores
\* the terminal.
RaiseKeepsTerminal ==
    /\ pc \in {"frame", "poll"}
    /\ pc' = "error"
    /\ UNCHANGED <<prompt, duration_seconds, clock, term, prompt_words,
                   typed_words, word_index, start_time, frame, key, result, results>>

\* An exception other than get_wch's curses.error leaves _curses_main
\* (addstr or move outside the window, an interrupt while reading):
\* curses.wrapper restores the terminal in its finally clause and the
\* exception reaches main; result is never returned.
Raise ==
    /\ pc \in {"frame", "poll"}
    /\ pc' = "error"
    /\ term' = [term EXCEPT !.mode = "normal"]
    /\ UNCHANGED <<prompt, duration_seconds, clock, prompt_words, typed_words,
                   word_index, start_time, frame, key, result, results>>

\* time.perf_counter() moves on while the session runs.  The clock is
\* followed until one second past the budget.
Tick ==
    /\ pc \in {"frame", "poll"}
    /\ clock < start_time + duration_seconds + 1
    /\ clock' = clock + 1
    /\ UNCHANGED <<pc, prompt, duration_seconds, term, prompt_words, typed_words,
                   word_index, start_time, frame, key, result, results>>

\* main, line 350: results = _score(prompt, typed, elapsed)
ScoreSession ==
    /\ pc = "done"
    /\ pc' = "scored"
    /\ results' = Score(prompt, result.typed, result.elapsed)
    /\ UNCHANGED <<prompt, duration_seconds, clock, term, prompt_words,
                   typed_words, word_index, start_time, frame, key, result>>

Next ==
    \/ Start
    \/ Frame
    \/ Timeout
    \/ \E k \in BackspaceKeys : Backspace(k)
    \/ \E size \in TermSizes : Resize(size)
    \/ Advance
    \/ \E c \in Letters : Char(c)
    \/ \E k \in OtherKeys : OtherKey(k)
    \/ Raise
    \/ Tick
    \/ ScoreSession

Spec == Init /\ [][Next]_vars

\* One read of the keyboard and what the loop does with it.  nodelay(True)
\* makes get_wch return at once, with a key or with curses.error.
PollStep ==
    \/ Timeout
    \/ \E k \in BackspaceKeys : Backspace(k)
    \/ \E size \in TermSizes : Resize(size)
    \/ Advance
    \/ \E c \in Letters : Char(c)
    \/ \E k \in OtherKeys : OtherKey(k)

\* The session with its scheduling: the program runs (no step of the loop
\* blocks) and the clock keeps advancing.  Frame is enabled exactly when
\* pc = "frame" and every Frame step leaves that state, so weak fairness of
\* Frame, WF_vars(Frame), is []<>(pc # "frame"), which is the form given.
SpecLive ==
    /\ Spec
    /\ WF_vars(Start)
    /\ []<>(pc # "frame")
    /\ WF_vars(PollStep)
    /\ WF_vars(Tick)

(***************************************************************************)
(* _layout_prompt on its own: every text over Letters and the space, every *)
(* width from 1.                                                           *)
(***************************************************************************)
RECURSIVE Strings(_, _)
\* The strings over alphabet of length at most n.
Strings(alphabet, n) ==
    IF n = 0 THEN {<<>>}
    ELSE LET shorter == Strings(alphabet, n - 1)
         IN  shorter \cup {Append(t, c) : t \in shorter, c \in alphabet}

InitLayout ==
    /\ pc = "layout"
    /\ \E text \in Strings(Letters \cup {Space}, MaxTextLen), width \in 1 .. MaxWidth :
           frame = [NoFrame EXCEPT !.rendered_text = text, !.usable_width = width]
    /\ prompt = <<>>
    /\ duration_seconds = 0
    /\ clock = 0
    /\ term = [mode |-> "normal", height |-> 0, width |-> 0]
    /\ prompt_words = <<>>
    /\ typed_words = <<>>
    /\ word_index = 0
    /\ start_time = 0
    /\ key = "none"
    /\ result = NoResult
    /\ results = NoResults

LayoutCall ==
    /\ pc = "layout"
    /\ pc' = "laid"
    /\ LET laid == LayoutPrompt(frame.rendered_text, frame.usable_width)
       IN  frame' = [frame EXCEPT !.prompt_lines = laid.lines,
                                  !.positions = laid.positions]
    /\ UNCHANGED <<prompt, duration_seconds, clock, term, prompt_words,
                   typed_words, word_index, start_time, key, result, results>>

NextLayout == LayoutCall

SpecLayout == InitLayout /\ [][NextLayout]_vars

(***************************************************************************)
(* _score on its own: every prompt and transcript over Letters and the     *)
(* space, every elapsed time from 0.                                       *)
(***************************************************************************)
InitScore ==
    /\ pc = "score"
    /\ prompt \in Strings(Letters \cup {Space}, MaxScoreLen)
    /\ \E typed \in Strings(Letters \cup {Space}, MaxScoreLen),
          elapsed \in 0 .. MaxElapsed :
           result = [typed |-> typed, elapsed |-> elapsed]
    /\ duration_seconds = 0
    /\ clock = 0
    /\ term = [mode |-> "normal", height |-> 0, width |-> 0]
    /\ prompt_words = <<>>
    /\ typed_words = <<>>
    /\ word_index = 0
    /\ start_time = 0
    /\ frame = NoFrame
    /\ key = "none"
    /\ results = NoResults

ScoreCall ==
    /\ pc = "score"
    /\ pc' = "scored"
    /\ results' = Score(prompt, result.typed, result.elapsed)
    /\ UNCHANGED <<prompt, duration_seconds, clock, term, prompt_words,
                   typed_words, word_index, start_time, frame, key, result>>

NextScore == ScoreCall

SpecScore == InitScore /\ [][NextScore]_vars

(***************************************************************************)
(* _build_rendered_text on its own: prompts of up to MaxBuildWords words,  *)
(* up to MaxBuildWords buffers of up to MaxBufLen characters.  The builder *)
(* reads only the length of a buffer (line 209), so the buffers hold one   *)
(* letter.                                                                 *)
(***************************************************************************)
RECURSIVE Lists(_, _)
\* The sequences of at most n elements of S.
Lists(S, n) ==
    IF n = 0 THEN {<<>>}
    ELSE LET shorter == Lists(S, n - 1)
         IN  shorter \cup {Append(t, x) : t \in shorter, x \in S}

BuildWordChoices == {<<"a">>, <<"b", "a">>}

InitBuild ==
    /\ pc = "build"
    /\ prompt_words \in Lists(BuildWordChoices, MaxBuildWords) \ {<<>>}
    /\ typed_words \in Lists(Strings({"a"}, MaxBufLen), MaxBuildWords)
    /\ prompt = <<>>
    /\ duration_seconds = 0
    /\ clock = 0
    /\ term = [mode |-> "normal", height |-> 0, width |-> 0]
    /\ word_index = 0
    /\ start_time = 0
    /\ frame = NoFrame
    /\ key = "none"
    /\ result = NoResult
    /\ results = NoResults

BuildCall ==
    /\ pc = "build"
    /\ pc' = "built"
    /\ LET built == BuildRenderedText(prompt_words, typed_words)
       IN  frame' = [frame EXCEPT !.rendered_text = built.text,
                                  !.prompt_starts = built.starts]
    /\ UNCHANGED <<prompt, duration_seconds, clock, term, prompt_words,
                   typed_words, word_index, start_time, key, result, results>>

NextBuild == BuildCall

SpecBuild == InitBuild /\ [][NextBuild]_vars

(***************************************************************************)
(* Properties                                                              *)
(***************************************************************************)
\* A step of the loop that read a key (or timed out) and handled it.
KeyStep == pc = "poll" /\ pc' \in {"frame", "done"}

\* The current word is the last of the prompt and its buffer spells it.
AtLastWordExact ==
    /\ word_index = Len(prompt_words) - 1
    /\ typed_words[word_index + 1] = prompt_words[word_index + 1]

\* The session's loop is running.
InLoop == pc \in {"frame", "poll"}

\* C1: with time remaining, an advance (space) received while the current
\* word is the last one and its buffer equals it ends the loop in that very
\* step, with the buffers as they were; once the loop has ended no buffer,
\* index or key changes any more.
C1_ExactLastWordAdvanceEnds ==
    [][/\ (KeyStep /\ key' = Space /\ frame.remaining > 0 /\ AtLastWordExact)
           => /\ pc' = "done"
              /\ UNCHANGED <<typed_words, word_index>>
              /\ result'.typed = Transcript(typed_words)
       /\ (pc \in {"done", "scored"})
           => UNCHANGED <<typed_words, word_index, key, result>>]_vars

\* The loop ended on an advance while the clock was still inside the budget.
C1_Witness ==
    /\ pc = "done"
    /\ key = Space
    /\ frame.remaining > 0
    /\ clock - start_time < duration_seconds
    /\ Len(prompt_words) = 1

\* C2: in every state of a session, len(typed_words) - 1 == word_index.
C2_BuffersMatchIndex ==
    (pc # "start") => Len(typed_words) - 1 = word_index

\* A backspace removed the only character of the second word's buffer: the
\* frame before it had the cursor past the word's first slot.
C2_Witness ==
    /\ pc = "frame"
    /\ key \in BackspaceKeys
    /\ word_index = 1
    /\ typed_words[2] = <<>>
    /\ frame.cursor # <<BaseRow, frame.prompt_starts[2]>>

\* The character of the laid-out lines at coordinate pos, "" outside them.
CharAt(lines, pos) ==
    IF pos[1] < Len(lines) /\ pos[2] < Len(lines[pos[1] + 1])
    THEN lines[pos[1] + 1][pos[2] + 1]
    ELSE ""

\* C3: the layout returns exactly len(text) positions, and positions[k] is
\* the coordinate of text[k]: lines[row][col] == text[k].  Stated for the
\* texts the render builder can hand to the layout, which begin with the
\* first character of a prompt word; the claim says it of every text.
C3_PositionsAlignedWithText ==
    (pc = "laid" /\ frame.rendered_text # <<>> /\ Head(frame.rendered_text) # Space) =>
        /\ Len(frame.positions) = Len(frame.rendered_text)
        /\ \A k \in 1 .. Len(frame.rendered_text) :
               CharAt(frame.prompt_lines, frame.positions[k]) = frame.rendered_text[k]

\* The character slot i of rendered word w: the expected character, or a
\* padding space past the word's end.
SlotChar(w, i) ==
    IF i < Len(prompt_words[w + 1]) THEN prompt_words[w + 1][i + 1] ELSE Space

\* The typed characters of the session, as (w, i) pairs.
TypedChars ==
    UNION {{<<w, i>> : i \in 0 .. Len(typed_words[w + 1]) - 1} :
               w \in 0 .. Len(typed_words) - 1}

\* C4: in the frame just painted, every typed character (w, i) has the
\* coordinate positions[prompt_starts[w] + i], the layout put character
\* slot i of rendered word w there, and distinct typed characters have
\* distinct coordinates.
C4_TypedCharsAtTheirSlots ==
    (pc = "poll") =>
        /\ \A c \in TypedChars :
               LET k == frame.prompt_starts[c[1] + 1] + c[2]
               IN  /\ k < Len(frame.positions)
                   /\ CharAt(frame.prompt_lines, frame.positions[k + 1])
                          = SlotChar(c[1], c[2])
        /\ \A c, d \in TypedChars :
               (c # d) =>
                   frame.positions[frame.prompt_starts[c[1] + 1] + c[2] + 1]
                       # frame.positions[frame.prompt_starts[d[1] + 1] + d[2] + 1]

\* Where the words of s begin: a non-space at the start or after a space.
WordStarts(s) ==
    {i \in 1 .. Len(s) : s[i] # Space /\ (i = 1 \/ s[i - 1] = Space)}

\* The p-th word of s (from 1): the maximal run of non-spaces from the
\* p-th word start.
WordAt(s, p) ==
    LET first == CHOOSE i \in WordStarts(s) :
                     Cardinality({j \in WordStarts(s) : j < i}) = p - 1
        last == CHOOSE j \in first .. Len(s) :
                     /\ \A m \in first .. j : s[m] # Space
                     /\ (j = Len(s) \/ s[j + 1] = Space)
    IN  SubSeq(s, first, last)

NumWords(s) == Cardinality(WordStarts(s))

\* C5: the scorer counts as correct the positions below both word counts
\* where the prompt's and the transcript's words are equal, total is
\* max(number of prompt words, 1), words-per-minute has all the typed words
\* over a positive time (so an empty transcript gives 0, also after 0
\* seconds), and no division by zero is raised.
C5_ScoreCounts ==
    (pc = "scored") =>
        LET np == NumWords(prompt)
            nt == NumWords(result.typed)
        IN  /\ results.correct =
                   Cardinality({q \in 1 .. Min(np, nt) :
                                    WordAt(prompt, q) = WordAt(result.typed, q)})
            /\ results.total = Max(np, 1)
            /\ results.wpm_words = nt
            /\ results.minutes.num > 0 /\ results.minutes.den > 0
            /\ (result.typed = <<>>) => (results.wpm_words = 0)
            /\ ~results.raised

\* After 0 seconds: two words typed, one of them correct.
C5_Witness ==
    /\ pc = "scored"
    /\ result.elapsed = 0
    /\ results.correct = 1
    /\ results.wpm_words = 2
    /\ results.total = 2

\* C6: a backspace with the first word current and its buffer empty leaves
\* typed_words and word_index as they were.
C6_BackspaceAtStartNoOp ==
    [][(KeyStep /\ key' \in BackspaceKeys /\ word_index = 0
            /\ typed_words[1] = <<>>)
           => UNCHANGED <<typed_words, word_index>>]_vars

\* A backspace was handled after a frame with the cursor on the first slot
\* of the first word, and the state is the initial one.
C6_Witness ==
    /\ pc = "frame"
    /\ key \in BackspaceKeys
    /\ frame.cursor = <<BaseRow, 0>>
    /\ word_index = 0
    /\ typed_words = << <<>> >>

\* C7: an advance with the last word current and its buffer different from
\* it changes neither typed_words nor word_index and the loop goes on.
C7_UnfinishedLastWordAdvanceSwallowed ==
    [][(KeyStep /\ key' = Space /\ word_index = Len(prompt_words) - 1
            /\ typed_words[word_index + 1] # prompt_words[word_index + 1])
           => (UNCHANGED <<typed_words, word_index>> /\ pc' = "frame")]_vars

\* An advance was handled in a one-word session whose word is half typed.
C7_Witness ==
    /\ pc = "frame"
    /\ key = Space
    /\ Len(prompt_words) = 1
    /\ typed_words = << <<"a">> >>
    /\ prompt_words[1] # <<"a">>

\* C8: in every state of a session 0 <= word_index < len(prompt_words),
\* and typed_words holds at most one buffer per prompt word.
C8_IndexInPrompt ==
    (pc # "start") =>
        /\ 0 <= word_index
        /\ word_index < Len(prompt_words)
        /\ Len(typed_words) <= Len(prompt_words)

\* An advance was handled with the last of two words current.
C8_Witness ==
    /\ pc = "frame"
    /\ key = Space
    /\ Len(prompt_words) = 2
    /\ word_index = 1
    /\ frame.cursor = <<BaseRow, frame.prompt_starts[2]>>

\* C9: while the last frame saw time remaining, the loop ends (break) only
\* in the step that handles an advance with the last word current and
\* exactly typed; every other key step continues the loop.
C9_OnlyExactAdvanceEndsEarly ==
    [][/\ (InLoop /\ pc' = "done" /\ frame'.remaining > 0)
           => (pc = "poll" /\ key' = Space /\ AtLastWordExact)
       /\ (KeyStep /\ ~(key' = Space /\ AtLastWordExact))
           => pc' = "frame"]_vars

\* A two-word session ended by break before its budget was used up.
C9_Witness ==
    /\ pc = "done"
    /\ frame.remaining > 0
    /\ Len(prompt_words) = 2
    /\ word_index = 1
    /\ result.elapsed < duration_seconds

\* C10: the terminal is in curses mode while the loop runs and back in
\* normal mode in every state in which the session is over: ended by
\* break (early or out of time) or by an exception.
C10_TerminalReleased ==
    /\ InLoop => term.mode = "curses"
    /\ (pc \in {"done", "scored", "error"}) => term.mode = "normal"

\* An exception ended a session in which a character had been typed.
C10_Witness ==
    /\ pc = "error"
    /\ term.mode = "normal"
    /\ TypedCount(typed_words) > 0

\* The length of the token of a laid-out line that holds column col: the
\* maximal run of non-spaces around it, 0 when the column holds a space.
TokenLenAt(line, col) ==
    Cardinality({j \in 1 .. Len(line) :
                    \A m \in Min(j, col + 1) .. Max(j, col + 1) : line[m] # Space})

\* C11: a position at a column >= width belongs to a character of a token
\* longer than width; no space (separator or padding) lies at a column
\* >= width.
C11_ColumnsWithinWidth ==
    (pc = "laid") =>
        \A k \in 1 .. Len(frame.positions) :
            LET row == frame.positions[k][1]
                col == frame.positions[k][2]
            IN  (col >= frame.usable_width) =>
                    /\ CharAt(frame.prompt_lines, frame.positions[k]) # Space
                    /\ TokenLenAt(frame.prompt_lines[row + 1], col) > frame.usable_width

\* A text laid out on two lines, with a token too long for the width
\* reaching past it and a space recorded on a line.
C11_Witness ==
    /\ pc = "laid"
    /\ Len(frame.prompt_lines) = 2
    /\ \E k \in 1 .. Len(frame.positions) :
           frame.positions[k][2] >= frame.usable_width
    /\ \E k \in 1 .. Len(frame.positions) :
           CharAt(frame.prompt_lines, frame.positions[k]) = Space

\* The number of characters typed for prompt word i (from 1): 0 for a word
\* not visited yet.
TypedLen(i) == IF i <= Len(typed_words) THEN Len(typed_words[i]) ELSE 0

\* max(0, len(typed[i]) - len(word_i))
PadLen(i) == Max(0, TypedLen(i) - Len(prompt_words[i]))

\* C12: the rendered text is the prompt words, each followed by
\* max(0, len(typed[i]) - len(word_i)) spaces, joined by single spaces;
\* prompt_starts[i] is the offset of word i's first character; so word i
\* owns max(len(word_i), len(typed[i])) slots from prompt_starts[i] that end
\* before the next word's.
C12_RenderedTextAndStarts ==
    (pc = "built") =>
        LET text == frame.rendered_text
            starts == frame.prompt_starts
            n == Len(prompt_words)
        IN  /\ Len(starts) = n
            /\ starts[1] = 0
            /\ \A i \in 1 .. n :
                   LET wlen == Len(prompt_words[i])
                       after == starts[i] + wlen + PadLen(i)
                   IN  /\ after <= Len(text)
                       /\ SubSeq(text, starts[i] + 1, starts[i] + wlen) = prompt_words[i]
                       /\ \A j \in starts[i] + wlen + 1 .. after : text[j] = Space
                       /\ starts[i] + Max(wlen, TypedLen(i)) <= after
                       /\ IF i < n
                          THEN /\ after < Len(text)
                               /\ text[after + 1] = Space
                               /\ starts[i + 1] = after + 1
                          ELSE Len(text) = after

\* Two words, the first typed past its end and the second not visited.
C12_Witness ==
    /\ pc = "built"
    /\ Len(prompt_words) = 2
    /\ Len(typed_words) = 1
    /\ Len(typed_words[1]) > Len(prompt_words[1])
    /\ frame.prompt_starts[2] = Len(typed_words[1]) + 1

\* The session is over: the loop was left by break or by an exception.
SessionOver == pc \in {"done", "scored", "error"}

\* C13: with the clock advancing, every session ends, whatever keys arrive;
\* a key is only read after a frame that computed remaining > 0, so the
\* loop is left at the first frame with remaining <= 0; and the elapsed
\* time reported is at most the budget.
C13_SessionTerminates ==
    /\ [](pc = "poll" => frame.remaining > 0)
    /\ []((pc \in {"done", "scored"}) => result.elapsed <= duration_seconds)
    /\ <>SessionOver

\* A session ended by the clock after a key had been typed, with the clock
\* past the budget and the elapsed time reported equal to the budget.
C13_Witness ==
    /\ pc = "done"
    /\ frame.remaining = 0
    /\ clock - start_time > duration_seconds
    /\ result.elapsed = duration_seconds
    /\ TypedCount(typed_words) > 0

\* A backspace is handled with the current buffer empty and a word before it.
BackspaceAcrossWords ==
    /\ KeyStep
    /\ key' \in BackspaceKeys
    /\ word_index > 0
    /\ typed_words[word_index + 1] = <<>>

\* C14: a backspace with an empty current buffer and word_index > 0 takes
\* one from word_index and removes the last buffer, leaving the earlier
\* buffers as they were; no other step lowers word_index, and a step that
\* does not lower it leaves it or adds exactly one.
C14_BackspaceAcrossWordBoundary ==
    [][/\ BackspaceAcrossWords
           => /\ word_index' = word_index - 1
              /\ typed_words' = SubSeq(typed_words, 1, Len(typed_words) - 1)
       /\ (word_index' < word_index) => BackspaceAcrossWords
       /\ (word_index' >= word_index) => (word_index' <= word_index + 1)]_vars

\* A backspace was handled after a frame that had the cursor on the first
\* slot of the second word; the first word is current again and keeps its
\* buffer.
C14_Witness ==
    /\ pc = "frame"
    /\ key \in BackspaceKeys
    /\ Len(prompt_words) = 2
    /\ word_index = 0
    /\ typed_words = << <<"a">> >>
    /\ LET slot == frame.positions[frame.prompt_starts[2] + 1]
       IN  frame.cursor = <<BaseRow + slot[1], slot[2]>>

\* C15: a resize, a poll without a key, and a key that is neither
\* backspace, space nor printable leave typed_words and word_index as they
\* were, and the loop goes on.
C15_IgnoredEventsChangeNothing ==
    [][(KeyStep /\ key' \in {"KEY_RESIZE", "timeout"} \cup OtherKeys)
           => (UNCHANGED <<typed_words, word_index>> /\ pc' = "frame")]_vars

\* A function key was handled in a session with a typed character.
C15_Witness ==
    /\ pc = "frame"
    /\ key = "KEY_UP"
    /\ TypedCount(typed_words) > 0

\* C16: a printable character c that is no space is appended to the current
\* buffer; word_index, the number of buffers and the other buffers stay,
\* however long the buffer is against the expected word.
C16_CharAppends ==
    [][(KeyStep /\ key' \in Letters)
           => /\ typed_words' = [typed_words EXCEPT ![word_index + 1] =
                                     Append(@, key')]
              /\ word_index' = word_index
              /\ pc' = "frame"]_vars

\* A character was appended past the end of the expected word.
C16_Witness ==
    /\ pc = "frame"
    /\ key \in Letters
    /\ LET buf == typed_words[word_index + 1]
       IN  /\ Len(buf) > Len(prompt_words[word_index + 1])
           /\ buf[Len(buf)] = key

\* The typed characters the frame painted: those whose slot exists in
\* positions and lies on one of the max_lines rows shown.
PaintedChars ==
    {c \in TypedChars :
        LET k == frame.prompt_starts[c[1] + 1] + c[2]
        IN  /\ k < Len(frame.positions)
            /\ frame.positions[k + 1][1] < frame.max_lines}

\* The cell of the screen that typed character c was painted to.
PaintedCell(c) ==
    LET pos == frame.positions[frame.prompt_starts[c[1] + 1] + c[2] + 1]
    IN  frame.screen[<<BaseRow + pos[1], pos[2]>>]

FrameStep == pc = "frame" /\ pc' \in {"poll", "done"}

\* C18: an input event is read only in a frame whose remaining is
\* positive; the frame that computes remaining <= 0 ends the loop without a
\* read, the transcript is made of typed_words as that frame saw them, and
\* typed_words and word_index never change afterwards.
C18_NoInputAfterTimeUp ==
    [][/\ KeyStep => frame.remaining > 0
       /\ (FrameStep /\ frame'.remaining <= 0)
              => /\ pc' = "done"
                 /\ key' = key
                 /\ UNCHANGED <<typed_words, word_index>>
                 /\ result'.typed = Transcript(typed_words)
       /\ (pc \in {"done", "scored"})
              => UNCHANGED <<typed_words, word_index, result, key>>]_vars

\* Time ran out in the second word, after a character was typed into it.
C18_Witness ==
    /\ pc = "done"
    /\ frame.remaining <= 0
    /\ word_index = 1
    /\ typed_words[2] # <<>>
    /\ result.typed = Transcript(typed_words)

\* The word indices whose buffer equals the prompt's word.
CorrectBuffers ==
    {i \in 1 .. Len(typed_words) :
        i <= Len(prompt_words) /\ typed_words[i] = prompt_words[i]}

\* C19: at the end of a session the correct count of the score equals the
\* number of word indices i < len(typed_words) whose buffer equals
\* prompt_words[i], also when a visited word's buffer is empty.
C19_CorrectCountsBuffers ==
    (pc = "scored") => results.correct = Cardinality(CorrectBuffers)

\* typed_words and word_index as one value.
InputState(twords, w_index) == [typed_words |-> twords, word_index |-> w_index]

\* C20: backspace undoes the event before it: right after a printable
\* character is handled, and right after an advance at a word that is not
\* the last, the backspace handler would take typed_words and word_index
\* back to the values they had before that event.
C20_BackspaceUndoes ==
    [][/\ (KeyStep /\ key' \in Letters)
              => BackspaceEffect(typed_words', word_index')
                     = InputState(typed_words, word_index)
       /\ (KeyStep /\ key' = Space /\ word_index < Len(prompt_words) - 1)
              => BackspaceEffect(typed_words', word_index')
                     = InputState(typed_words, word_index)]_vars

\* A backspace has just emptied the session's input again: the frame still
\* on the screen, painted before it, shows a typed character in the first
\* word, and typed_words and word_index are those of the start.
C20_Witness ==
    /\ pc = "frame"
    /\ key \in BackspaceKeys
    /\ InputState(typed_words, word_index) = InputState(<< <<>> >>, 0)
    /\ \E cell \in DOMAIN frame.screen :
           frame.screen[cell].color \in {ColorMatch, ColorMismatch}

====
